---- MODULE Spec2Model ----
(***************************************************************************)
(* BitSet<TElement, TToken> of src/src/BitSet.h as a state machine.        *)
(*                                                                         *)
(* A token (storage word) is modelled as the set of its set bit positions, *)
(* a subset of 0..ElementsPerToken-1.  The heap is a finite pool of        *)
(* buffers; TokenArray[o] = nullptr (0) or the id of a buffer.  A program  *)
(* owns the objects of Objects; each is constructed, used and destroyed by *)
(* the member functions of the class, one action per member function.      *)
(* The const member functions (Contains, IsEmpty, ForEachMember) change no *)
(* state: what they return is an operator of the state (ContainsResult,    *)
(* IsEmptyResult, ForEachMemberCalls).  fault records an assertion failure *)
(* (abort) or an access through nullptr (undefined behaviour); after       *)
(* either nothing more is modelled.  A call that breaks an asserted        *)
(* precondition is modelled where the assert is compiled in (it aborts);   *)
(* with NDEBUG such a call by the program is undefined use and left out,   *)
(* but the calls the class makes itself (CopyFrom from operator=) are not. *)
(***************************************************************************)
EXTENDS Integers, Sequences, FiniteSets

\* Width of TToken in bits (the template parameter; 32 or 64 in the program).
TokenBits == 2
\* Largest maxElements passed to the constructor.
MaxUniverse == 3
\* ReqSize never asks for fewer than this many tokens.
MinTokens == 16

ElementsPerToken == TokenBits
Bits == 0 .. (ElementsPerToken - 1)
Token == SUBSET Bits
nullptr == 0
\* The objects of the program.
Objects == {"a", "b"}
\* The heap has room for one buffer per object: the allocator is exhausted
\* only once a buffer has been leaked.
NumBuffers == Cardinality(Objects)
Buffers == 1 .. NumBuffers
Elements == 0 .. (MaxUniverse - 1)

VARIABLES
  NDEBUG,         \* TRUE: assert() compiled out
  alive,          \* alive[o]: o is constructed and not yet destroyed
  TokenArray,     \* TokenArray[o]: nullptr or a buffer
  LastTokenMask,  \* LastTokenMask[o]: a token
  Tokens,         \* Tokens[o]
  MaxElements,    \* MaxElements[o]
  heap,           \* heap[b]: the first Tokens words of buffer b, while an
                  \* object points to b (<<>> otherwise: no code can read it)
  allocated,      \* buffers malloc'ed and not yet freed
  allocFailed,    \* malloc/realloc returned nullptr in the last call
  fault           \* "none"; "assert": an assert failed (abort); "null": an
                  \* access through nullptr

fields == <<alive, TokenArray, LastTokenMask, Tokens, MaxElements>>
memory == <<heap, allocated>>
vars == <<NDEBUG, alive, TokenArray, LastTokenMask, Tokens, MaxElements,
          heap, allocated, allocFailed, fault>>

Min(S) == CHOOSE x \in S : \A y \in S : x <= y
Max(x, y) == IF x > y THEN x ELSE y

(***************************************************************************)
(* BitUtil<TToken,false> (BitUtil_uint32.h / BitUtil_uint64.h, not in      *)
(* src/): the bit primitives, by their contract.                           *)
(***************************************************************************)
TestBit(token, pos) == pos \in token
SetBit(token, pos) == token \cup {pos}
ClearBit(token, pos) == token \ {pos}
ClearAllBits(array, count) ==
  [k \in 1 .. Max(Len(array), count) |-> IF k <= count THEN {} ELSE array[k]]
OrVector(a, b, count) ==
  [k \in 1 .. Len(a) |-> IF k <= count THEN a[k] \cup b[k] ELSE a[k]]
AndVector(a, b, count) ==
  [k \in 1 .. Len(a) |-> IF k <= count THEN a[k] \cap b[k] ELSE a[k]]
BitScanForward(token) ==
  IF token = {} THEN [found |-> FALSE, idx |-> 0]
  ELSE [found |-> TRUE, idx |-> Min(token)]

\* operator ~ on a token
BitNot(token) == Bits \ token
\* memcpy(dst, src, sizeof(TToken)*count)
Memcpy(dst, src, count) ==
  [k \in 1 .. Max(Len(dst), count) |-> IF k <= count THEN src[k] ELSE dst[k]]

(***************************************************************************)
(* Allocator.  Buffers are interchangeable, so malloc returns the lowest   *)
(* free one, or nullptr (it may fail at any time, and does when the pool   *)
(* is exhausted).  A block is asked for with room for ReqSize(Tokens) >=   *)
(* Tokens words, never for 0; heap[b] holds the Tokens words of b that its *)
(* owner uses, none when fresh.                                            *)
(***************************************************************************)
\* ReqSize(r), in tokens
ReqSize(r) == Max(r, MinTokens)

Malloc(size) ==
  {nullptr} \cup (IF size = 0 \/ Buffers \ allocated = {} THEN {}
                  ELSE {Min(Buffers \ allocated)})
\* realloc(p, size): nullptr (p stays allocated), p itself, or a new buffer
\* (p freed).  realloc(nullptr, size) is malloc(size).
Realloc(p, size) == IF p = nullptr THEN Malloc(size) ELSE Malloc(size) \cup {p}

\* the program may make the call: its asserted precondition holds, or the
\* assert is there to stop it
MayCall(pre) == NDEBUG => pre

TokensFor(maxElements) ==
  IF (maxElements \div ElementsPerToken) * ElementsPerToken /= maxElements
  THEN (maxElements \div ElementsPerToken) + 1
  ELSE maxElements \div ElementsPerToken
MaskFor(maxElements) ==
  {i \in Bits : i < maxElements % ElementsPerToken}

\* assert(cond) fails: only when assertions are compiled in
AssertFails(cond) == ~NDEBUG /\ ~cond

\* the call stops (abort, or undefined behaviour) before it changes anything
Stop(kind) ==
  fault' = kind /\ allocFailed' = FALSE /\ UNCHANGED <<fields, memory>>
\* the call completes and changes the buffer p only
Store(p, words) ==
  /\ fault' = "none" /\ allocFailed' = FALSE
  /\ UNCHANGED <<fields, allocated>>
  /\ heap' = [heap EXCEPT ![p] = words]
\* the call completes and changes nothing
Skip == fault' = "none" /\ allocFailed' = FALSE /\ UNCHANGED <<fields, memory>>

Init ==
  /\ NDEBUG \in BOOLEAN
  /\ alive = [o \in Objects |-> FALSE]
  /\ TokenArray = [o \in Objects |-> nullptr]
  /\ LastTokenMask = [o \in Objects |-> {}]
  /\ Tokens = [o \in Objects |-> 0]
  /\ MaxElements = [o \in Objects |-> 0]
  /\ heap = [b \in Buffers |-> <<>>]
  /\ allocated = {}
  /\ allocFailed = FALSE
  /\ fault = "none"

\* BitSet(unsigned maxElements)
Construct(self, maxElements) ==
  /\ fault = "none" /\ ~alive[self]
  /\ \E p \in Malloc(ReqSize(TokensFor(maxElements))) :
       /\ alive' = [alive EXCEPT ![self] = TRUE]
       /\ Tokens' = [Tokens EXCEPT ![self] = TokensFor(maxElements)]
       /\ TokenArray' = [TokenArray EXCEPT ![self] = p]
       /\ MaxElements' = [MaxElements EXCEPT ![self] = maxElements]
       /\ LastTokenMask' = [LastTokenMask EXCEPT ![self] = MaskFor(maxElements)]
       /\ allocated' = allocated \cup ({p} \ {nullptr})
       /\ allocFailed' = (p = nullptr)
       /\ IF p = nullptr
          THEN /\ fault' = IF TokensFor(maxElements) > 0 THEN "null" ELSE "none"
               /\ heap' = heap
          ELSE /\ fault' = "none"
               /\ heap' = [heap EXCEPT
                             ![p] = ClearAllBits(<<>>, TokensFor(maxElements))]
  /\ UNCHANGED NDEBUG

\* ~BitSet()
Destroy(self) ==
  /\ fault = "none" /\ alive[self]
  /\ alive' = [alive EXCEPT ![self] = FALSE]
  /\ TokenArray' = [TokenArray EXCEPT ![self] = nullptr]
  /\ LastTokenMask' = [LastTokenMask EXCEPT ![self] = {}]
  /\ Tokens' = [Tokens EXCEPT ![self] = 0]
  /\ MaxElements' = [MaxElements EXCEPT ![self] = 0]
  /\ IF TokenArray[self] /= nullptr
     THEN /\ allocated' = allocated \ {TokenArray[self]}
          /\ heap' = [heap EXCEPT ![TokenArray[self]] = <<>>]
     ELSE UNCHANGED memory
  /\ allocFailed' = FALSE /\ fault' = "none"
  /\ UNCHANGED NDEBUG


\* bool Contains(TElement element) const, where it returns
ContainsResult(self, element) ==
  TestBit(heap[TokenArray[self]][(element \div ElementsPerToken) + 1],
          element % ElementsPerToken)

\* IsEmpty with its loop stopping one token early
IsEmptyResult_SkipsLastToken(self) ==
  ~ \E s \in 0 .. (Tokens[self] - 2) : heap[TokenArray[self]][s + 1] /= {}

\* bool IsEmpty() const, where it returns
IsEmptyResult(self) ==
  ~ \E s \in 0 .. (Tokens[self] - 1) : heap[TokenArray[self]][s + 1] /= {}

\* the inner while loop of ForEachMember: the values passed to cb for one token
RECURSIVE ScanToken(_, _)
ScanToken(token, offset) ==
  IF ~BitScanForward(token).found THEN <<>>
  ELSE LET idx == BitScanForward(token).idx
       IN  <<idx + offset>> \o ScanToken(ClearBit(token, idx), offset)

\* the for loop of ForEachMember from token i on, with cb always continuing
RECURSIVE ScanTokens(_, _)
ScanTokens(self, i) ==
  IF i >= Tokens[self] THEN <<>>
  ELSE LET raw == heap[TokenArray[self]][i + 1]
           token == IF i = Tokens[self] - 1
                    THEN raw \cap LastTokenMask[self] ELSE raw
       IN  ScanToken(token, i * ElementsPerToken) \o ScanTokens(self, i + 1)

\* the values cb is called with, when cb returns false on the values of stopAt
ForEachMemberCalls(self, stopAt) ==
  LET all == ScanTokens(self, 0)
      stops == {k \in 1 .. Len(all) : all[k] \in stopAt}
  IN  IF stops = {} THEN all ELSE SubSeq(all, 1, Min(stops))

\* the two asserts of Contains, Add and Remove
RangeFails(self, element) ==
  \/ ~(element < Tokens[self] * ElementsPerToken)
  \/ ~(element < MaxElements[self])
RangeAssertFails(self, element) ==
  \/ AssertFails(element < Tokens[self] * ElementsPerToken)
  \/ AssertFails(element < MaxElements[self])

\* bool Contains(TElement element) const
Contains(self, element) ==
  /\ fault = "none" /\ alive[self]
  /\ MayCall(~RangeFails(self, element))
  /\ UNCHANGED NDEBUG
  /\ IF RangeAssertFails(self, element)
     THEN Stop("assert")
     ELSE IF TokenArray[self] = nullptr
     THEN Stop("null")
     ELSE Skip

\* Add with the element's offset taken in the first token, whatever its token
Add_FirstTokenOnly(self, element) ==
  /\ fault = "none" /\ alive[self]
  /\ MayCall(~RangeFails(self, element))
  /\ UNCHANGED NDEBUG
  /\ IF RangeAssertFails(self, element) THEN Stop("assert")
     ELSE IF TokenArray[self] = nullptr THEN Stop("null")
     ELSE LET offset == element % ElementsPerToken
              p == TokenArray[self]
          IN  Store(p, [heap[p] EXCEPT ![1] = SetBit(@, offset)])

\* void Add(TElement element)
Add(self, element) ==
  /\ fault = "none" /\ alive[self]
  /\ MayCall(~RangeFails(self, element))
  /\ UNCHANGED NDEBUG
  /\ IF RangeAssertFails(self, element) THEN Stop("assert")
     ELSE IF TokenArray[self] = nullptr THEN Stop("null")
     ELSE LET token == (element \div ElementsPerToken) + 1
              offset == element % ElementsPerToken
              p == TokenArray[self]
          IN  Store(p, [heap[p] EXCEPT ![token] = SetBit(@, offset)])

\* void Remove(TElement element)
Remove(self, element) ==
  /\ fault = "none" /\ alive[self]
  /\ MayCall(~RangeFails(self, element))
  /\ UNCHANGED NDEBUG
  /\ IF RangeAssertFails(self, element) THEN Stop("assert")
     ELSE IF TokenArray[self] = nullptr THEN Stop("null")
     ELSE LET token == (element \div ElementsPerToken) + 1
              offset == element % ElementsPerToken
              p == TokenArray[self]
          IN  Store(p, [heap[p] EXCEPT ![token] = ClearBit(@, offset)])

\* void Clear()
Clear(self) ==
  /\ fault = "none" /\ alive[self]
  /\ UNCHANGED NDEBUG
  /\ IF Tokens[self] = 0 THEN Skip
     ELSE IF TokenArray[self] = nullptr THEN Stop("null")
     ELSE Store(TokenArray[self],
                ClearAllBits(heap[TokenArray[self]], Tokens[self]))

\* bool IsEmpty() const
IsEmpty(self) ==
  /\ fault = "none" /\ alive[self]
  /\ UNCHANGED NDEBUG
  /\ IF Tokens[self] = 0 THEN Skip
     ELSE IF TokenArray[self] = nullptr THEN Stop("null")
     ELSE Skip

\* void Complement()
Complement(self) ==
  /\ fault = "none" /\ alive[self]
  /\ UNCHANGED NDEBUG
  /\ IF Tokens[self] = 0 THEN Skip
     ELSE IF TokenArray[self] = nullptr THEN Stop("null")
     ELSE Store(TokenArray[self],
                [s \in 1 .. Tokens[self] |-> BitNot(heap[TokenArray[self]][s])])

\* void ForEachMember(std::function<bool(TElement)> cb) const
ForEachMember(self, stopAt) ==
  /\ fault = "none" /\ alive[self]
  /\ UNCHANGED NDEBUG
  /\ IF Tokens[self] = 0 THEN Skip
     ELSE IF TokenArray[self] = nullptr THEN Stop("null")
     ELSE Skip

\* UnionWith over one token fewer than there are
UnionWith_SkipsLastToken(self, c) ==
  /\ fault = "none" /\ alive[self] /\ alive[c]
  /\ MayCall(Tokens[c] = Tokens[self])
  /\ UNCHANGED NDEBUG
  /\ IF AssertFails(Tokens[c] = Tokens[self]) THEN Stop("assert")
     ELSE IF Tokens[self] = 0 THEN Skip
     ELSE IF TokenArray[self] = nullptr \/ TokenArray[c] = nullptr
     THEN Stop("null")
     ELSE Store(TokenArray[self],
                OrVector(heap[TokenArray[self]], heap[TokenArray[c]],
                         Tokens[self] - 1))

\* void UnionWith(const BitSet& c)
UnionWith(self, c) ==
  /\ fault = "none" /\ alive[self] /\ alive[c]
  /\ MayCall(Tokens[c] = Tokens[self])
  /\ UNCHANGED NDEBUG
  /\ IF AssertFails(Tokens[c] = Tokens[self]) THEN Stop("assert")
     ELSE IF Tokens[self] = 0 THEN Skip
     ELSE IF TokenArray[self] = nullptr \/ TokenArray[c] = nullptr
     THEN Stop("null")
     ELSE Store(TokenArray[self],
                OrVector(heap[TokenArray[self]], heap[TokenArray[c]],
                         Tokens[self]))

\* void IntersectWith(const BitSet& c)
IntersectWith(self, c) ==
  /\ fault = "none" /\ alive[self] /\ alive[c]
  /\ MayCall(Tokens[c] = Tokens[self])
  /\ UNCHANGED NDEBUG
  /\ IF AssertFails(Tokens[c] = Tokens[self]) THEN Stop("assert")
     ELSE IF Tokens[self] = 0 THEN Skip
     ELSE IF TokenArray[self] = nullptr \/ TokenArray[c] = nullptr
     THEN Stop("null")
     ELSE Store(TokenArray[self],
                AndVector(heap[TokenArray[self]], heap[TokenArray[c]],
                         Tokens[self]))

\* the body of CopyFrom for a receiver with the fields (tokens, mask, max, p)
\* on the heap hp: the fault it ends with and the heap it leaves
CopyFromBody(tokens, mask, max, p, hp, copyFrom) ==
  IF \/ AssertFails(Tokens[copyFrom] = tokens)
     \/ AssertFails(LastTokenMask[copyFrom] = mask)
     \/ AssertFails(MaxElements[copyFrom] = max)
  THEN [fault |-> "assert", heap |-> hp]
  ELSE IF tokens = 0 THEN [fault |-> "none", heap |-> hp]
  ELSE IF p = nullptr \/ TokenArray[copyFrom] = nullptr
  THEN [fault |-> "null", heap |-> hp]
  ELSE [fault |-> "none",
        heap |-> [hp EXCEPT
                    ![p] = Memcpy(hp[p], heap[TokenArray[copyFrom]], tokens)]]

\* void CopyFrom(const BitSet& copyFrom)
CopyFrom(self, copyFrom) ==
  /\ fault = "none" /\ alive[self] /\ alive[copyFrom]
  /\ MayCall(/\ Tokens[copyFrom] = Tokens[self]
             /\ LastTokenMask[copyFrom] = LastTokenMask[self]
             /\ MaxElements[copyFrom] = MaxElements[self])
  /\ UNCHANGED NDEBUG
  /\ LET r == CopyFromBody(Tokens[self], LastTokenMask[self],
                           MaxElements[self], TokenArray[self], heap, copyFrom)
     IN  fault' = r.fault /\ heap' = r.heap
  /\ allocFailed' = FALSE
  /\ UNCHANGED <<fields, allocated>>

\* BitSet(const BitSet& copyFrom)
CopyConstruct(self, copyFrom) ==
  /\ fault = "none" /\ ~alive[self] /\ alive[copyFrom]
  /\ UNCHANGED NDEBUG
  /\ \E p \in Malloc(ReqSize(Tokens[copyFrom])) :
       /\ alive' = [alive EXCEPT ![self] = TRUE]
       /\ Tokens' = [Tokens EXCEPT ![self] = Tokens[copyFrom]]
       /\ LastTokenMask' = [LastTokenMask EXCEPT ![self] = LastTokenMask[copyFrom]]
       /\ MaxElements' = [MaxElements EXCEPT ![self] = MaxElements[copyFrom]]
       /\ TokenArray' = [TokenArray EXCEPT ![self] = p]
       /\ allocated' = allocated \cup ({p} \ {nullptr})
       /\ allocFailed' = (p = nullptr)
       /\ LET r == CopyFromBody(
                       Tokens[copyFrom], LastTokenMask[copyFrom],
                       MaxElements[copyFrom], p,
                       IF p = nullptr THEN heap ELSE [heap EXCEPT ![p] = <<>>],
                       copyFrom)
          IN  fault' = r.fault /\ heap' = r.heap

\* BitSet(BitSet&& rhs)
MoveConstruct(self, rhs) ==
  /\ fault = "none" /\ ~alive[self] /\ alive[rhs]
  /\ UNCHANGED NDEBUG
  /\ alive' = [alive EXCEPT ![self] = TRUE]
  /\ TokenArray' = [TokenArray EXCEPT ![self] = TokenArray[rhs], ![rhs] = nullptr]
  /\ LastTokenMask' = [LastTokenMask EXCEPT ![self] = LastTokenMask[rhs]]
  /\ Tokens' = [Tokens EXCEPT ![self] = Tokens[rhs]]
  /\ MaxElements' = [MaxElements EXCEPT ![self] = MaxElements[rhs]]
  /\ fault' = "none" /\ allocFailed' = FALSE
  /\ UNCHANGED memory

\* BitSet& operator= (const BitSet& rh)
CopyAssign(self, rh) ==
  /\ fault = "none" /\ alive[self] /\ alive[rh]
  /\ UNCHANGED NDEBUG
  /\ IF Tokens[rh] /= Tokens[self]
     THEN \E p \in Realloc(TokenArray[self], ReqSize(Tokens[rh])) :
            LET old == TokenArray[self]
                moved == p /= nullptr /\ p /= old /\ old /= nullptr
                freed == IF moved THEN [heap EXCEPT ![old] = <<>>] ELSE heap
                lost == IF old /= nullptr THEN [heap EXCEPT ![old] = <<>>]
                        ELSE heap
                hp == IF p = nullptr THEN lost ELSE [freed EXCEPT ![p] = <<>>]
            IN  /\ Tokens' = [Tokens EXCEPT ![self] = Tokens[rh]]
                /\ LastTokenMask' =
                     [LastTokenMask EXCEPT ![self] = LastTokenMask[rh]]
                /\ MaxElements' = [MaxElements EXCEPT ![self] = MaxElements[rh]]
                /\ TokenArray' = [TokenArray EXCEPT ![self] = p]
                /\ allocated' = IF p = nullptr THEN allocated
                                ELSE (allocated \ {old}) \cup {p}
                /\ allocFailed' = (p = nullptr)
                /\ LET r == CopyFromBody(Tokens[rh], LastTokenMask[rh],
                                         MaxElements[rh], p, hp, rh)
                   IN  fault' = r.fault /\ heap' = r.heap
                /\ UNCHANGED alive
     ELSE /\ LET r == CopyFromBody(Tokens[self], LastTokenMask[self],
                                   MaxElements[self], TokenArray[self], heap,
                                   rh)
             IN  fault' = r.fault /\ heap' = r.heap
          /\ allocFailed' = FALSE
          /\ UNCHANGED <<fields, allocated>>

\* BitSet& operator= (const BitSet&& rhs); its test "rhs != this" is read as
\* "&rhs != this", and the write to rhs.TokenArray as going through the const
MoveAssign(self, rhs) ==
  /\ fault = "none" /\ alive[self] /\ alive[rhs]
  /\ UNCHANGED NDEBUG
  /\ IF rhs /= self
     THEN /\ TokenArray' =
               [TokenArray EXCEPT ![self] = TokenArray[rhs], ![rhs] = nullptr]
          /\ LastTokenMask' = [LastTokenMask EXCEPT ![self] = LastTokenMask[rhs]]
          /\ MaxElements' = [MaxElements EXCEPT ![self] = MaxElements[rhs]]
          /\ Tokens' = [Tokens EXCEPT ![self] = Tokens[rhs]]
          /\ heap' = IF TokenArray[self] /= nullptr
                     THEN [heap EXCEPT ![TokenArray[self]] = <<>>] ELSE heap
          /\ UNCHANGED <<alive, allocated>>
     ELSE UNCHANGED <<fields, memory>>
  /\ fault' = "none" /\ allocFailed' = FALSE

Next ==
  \/ \E self \in Objects, maxElements \in 0 .. MaxUniverse :
       Construct(self, maxElements)
  \/ \E self \in Objects, copyFrom \in Objects : CopyConstruct(self, copyFrom)
  \/ \E self \in Objects, rhs \in Objects : MoveConstruct(self, rhs)
  \/ \E self \in Objects : Destroy(self)
  \/ \E self \in Objects, rh \in Objects : CopyAssign(self, rh)
  \/ \E self \in Objects, rhs \in Objects : MoveAssign(self, rhs)
  \/ \E self \in Objects, copyFrom \in Objects : CopyFrom(self, copyFrom)
  \/ \E self \in Objects, element \in Elements : Contains(self, element)
  \/ \E self \in Objects, element \in Elements : Add(self, element)
  \/ \E self \in Objects, element \in Elements : Remove(self, element)
  \/ \E self \in Objects : Clear(self)
  \/ \E self \in Objects : IsEmpty(self)
  \/ \E self \in Objects : Complement(self)
  \/ \E self \in Objects, stopAt \in {{}, Elements} : ForEachMember(self, stopAt)
  \/ \E self \in Objects, c \in Objects : UnionWith(self, c)
  \/ \E self \in Objects, c \in Objects : IntersectWith(self, c)

Spec == Init /\ [][Next]_vars

(***************************************************************************)
(* Vocabulary of the properties.                                           *)
(***************************************************************************)
\* o is constructed and points to a buffer
Usable(o) == alive[o] /\ TokenArray[o] /= nullptr
\* the elements Contains may be asked about
Valid(o) == 0 .. (MaxElements[o] - 1)
\* the membership of o: the valid elements Contains returns true for
Members(o) == {e \in Valid(o) : ContainsResult(o, e)}
\* universe-compatible
Compatible(o1, o2) ==
  /\ Tokens[o1] = Tokens[o2]
  /\ MaxElements[o1] = MaxElements[o2]
  /\ LastTokenMask[o1] = LastTokenMask[o2]
\* the bits set in the last word of o's storage (none without storage)
LastToken(o) ==
  IF Tokens[o] = 0 \/ TokenArray[o] = nullptr THEN {}
  ELSE heap[TokenArray[o]][Tokens[o]]
\* those at positions >= MaxElements: the set tail bits
TailSet(o) ==
  {i \in LastToken(o) :
     (Tokens[o] - 1) * ElementsPerToken + i >= MaxElements[o]}
\* the elements of S in ascending order
RECURSIVE Ascending(_)
Ascending(S) ==
  IF S = {} THEN <<>> ELSE <<Min(S)>> \o Ascending(S \ {Min(S)})

(***************************************************************************)
(* C1                                                                      *)
(***************************************************************************)
\* C1: for every universe size and every reachable set, ForEachMember with a
\* callback that always continues calls it on exactly the members, in
\* strictly ascending order, each once.
C1_ForEachMemberVisitsMembers ==
  \A o \in Objects :
    (fault = "none" /\ Usable(o)) =>
      ForEachMemberCalls(o, {}) = Ascending(Members(o))

(***************************************************************************)
(* C2                                                                      *)
(***************************************************************************)
\* C2: for a valid element e, Add(e) makes Contains(e) true and Remove(e)
\* makes it false; neither changes Contains(f) for a valid f /= e, and
\* each changes nothing when repeated.
C2_AddRemoveContains ==
  [][\A self \in Objects, e \in Elements :
       (fault = "none" /\ Usable(self) /\ e \in Valid(self)) =>
         /\ Add(self, e) =>
              /\ fault' = "none"
              /\ ContainsResult(self, e)'
              /\ \A f \in Valid(self) \ {e} :
                   ContainsResult(self, f)' = ContainsResult(self, f)
              /\ ContainsResult(self, e) => heap' = heap
         /\ Remove(self, e) =>
              /\ fault' = "none"
              /\ ~ContainsResult(self, e)'
              /\ \A f \in Valid(self) \ {e} :
                   ContainsResult(self, f)' = ContainsResult(self, f)
              /\ ~ContainsResult(self, e) => heap' = heap
    ]_vars

\* a set over two tokens that Add has put an element of each token into and
\* that lacks an element between them
C2_Witness ==
  \E o \in Objects :
    /\ fault = "none" /\ Usable(o) /\ Tokens[o] = 2
    /\ Members(o) = {0, ElementsPerToken}

(***************************************************************************)
(* C3                                                                      *)
(***************************************************************************)
\* C3: for universe-compatible A and B, A.UnionWith(B) makes A's membership
\* the union and A.IntersectWith(B) the intersection of the two memberships,
\* and leaves B (and A, when B is A) as it was; commutativity, associativity
\* and idempotence on set contents are those of set union and intersection.
C3_UnionIntersect ==
  [][\A self \in Objects, c \in Objects :
       (fault = "none" /\ Usable(self) /\ Usable(c) /\ Compatible(self, c)) =>
         /\ UnionWith(self, c) =>
              /\ fault' = "none"
              /\ Members(self)' = Members(self) \cup Members(c)
              /\ Members(c)' = IF c = self THEN Members(self)' ELSE Members(c)
              /\ c /= self => heap'[TokenArray[c]] = heap[TokenArray[c]]
              /\ c = self => heap' = heap
         /\ IntersectWith(self, c) =>
              /\ fault' = "none"
              /\ Members(self)' = Members(self) \cap Members(c)
              /\ Members(c)' = IF c = self THEN Members(self)' ELSE Members(c)
              /\ c /= self => heap'[TokenArray[c]] = heap[TokenArray[c]]
              /\ c = self => heap' = heap
    ]_vars

\* two compatible sets over two tokens, one holding what the other holds and
\* an element more in each token
C3_Witness ==
  \E o1 \in Objects, o2 \in Objects :
    /\ fault = "none" /\ o1 /= o2 /\ Usable(o1) /\ Usable(o2)
    /\ Compatible(o1, o2) /\ Tokens[o1] = 2
    /\ Members(o2) = {1}
    /\ Members(o1) = {0, 1, ElementsPerToken}

(***************************************************************************)
(* C4                                                                      *)
(***************************************************************************)
\* a call of a mutating member function on self
Mutates(self) ==
  \/ \E e \in Elements : Add(self, e) \/ Remove(self, e)
  \/ Clear(self)
  \/ Complement(self)
  \/ \E c \in Objects : UnionWith(self, c) \/ IntersectWith(self, c)
                        \/ CopyFrom(self, c)

\* C4: after copy construction or copy assignment the copy has the
\* membership of the original and a buffer of its own, and a mutating call
\* on either object leaves the membership of the other unchanged.
C4_CopyIndependent ==
  [][\A self \in Objects, other \in Objects :
       (fault = "none" /\ self /= other /\ Usable(other)) =>
         /\ ((CopyConstruct(self, other) \/ CopyAssign(self, other))
             /\ fault' = "none") =>
              /\ Members(other)' = Members(other)
              /\ Members(self)' = Members(other)'
              /\ TokenArray'[self] /= TokenArray'[other]
         /\ (Usable(self) /\ Mutates(self)) =>
              /\ heap'[TokenArray[other]] = heap[TokenArray[other]]
              /\ fault' = "none" => Members(other)' = Members(other)
    ]_vars

(***************************************************************************)
(* C5                                                                      *)
(***************************************************************************)
\* C5: copy assignment dst = src gives dst the Tokens, MaxElements,
\* LastTokenMask and membership of src, whatever the universes of the two,
\* also when they have the same Tokens and different MaxElements.
C5_CopyAssignDuplicates ==
  [][\A self \in Objects, rh \in Objects :
       (/\ fault = "none" /\ Usable(self) /\ Usable(rh)
        /\ CopyAssign(self, rh) /\ ~allocFailed') =>
         /\ fault' = "none"
         /\ Tokens'[self] = Tokens[rh]
         /\ MaxElements'[self] = MaxElements[rh]
         /\ LastTokenMask'[self] = LastTokenMask[rh]
         /\ Members(self)' = Members(rh)
    ]_vars

(***************************************************************************)
(* C6                                                                      *)
(***************************************************************************)
\* C6: with assertions compiled in, CopyFrom, UnionWith and IntersectWith
\* with an operand that is not universe-compatible fail an assertion before
\* any bit of the receiver is modified.
C6_IncompatibleOperandAsserts ==
  [][\A self \in Objects, c \in Objects :
       (/\ fault = "none" /\ ~NDEBUG /\ alive[self] /\ alive[c]
        /\ ~Compatible(self, c)
        /\ (CopyFrom(self, c) \/ UnionWith(self, c) \/ IntersectWith(self, c)))
       => (fault' = "assert" /\ heap' = heap)
    ]_vars

(***************************************************************************)
(* C7                                                                      *)
(***************************************************************************)
\* the buffers some object points to
Owned == {TokenArray[o] : o \in Objects} \ {nullptr}

\* C7: when malloc or realloc returns nullptr the call does not go on to
\* read or write through the missing buffer, and the buffer owned before a
\* failed realloc is not lost.
C7_AllocationFailureSurfaced ==
  allocFailed => (fault /= "null" /\ allocated \subseteq Owned)

(***************************************************************************)
(* C8                                                                      *)
(***************************************************************************)
\* no object is without a buffer because the allocator failed
NoFailedAllocation ==
  \A o \in Objects : (alive[o] /\ Tokens[o] = 0) => TokenArray[o] /= nullptr

\* C8: every allocated buffer has exactly one owner (so the destructors
\* release each exactly once and none is left when every object is
\* destroyed), and no object points to a released buffer.
C8_BuffersOwnedOnceReleasedOnce ==
  (fault = "none" /\ NoFailedAllocation) =>
    /\ \A o1 \in Objects, o2 \in Objects :
         (o1 /= o2 /\ TokenArray[o1] /= nullptr) =>
           TokenArray[o1] /= TokenArray[o2]
    /\ Owned \subseteq allocated
    /\ allocated \subseteq Owned
    /\ (\A o \in Objects : ~alive[o]) => allocated = {}

(***************************************************************************)
(* C9                                                                      *)
(***************************************************************************)
\* o has been moved from: constructed, universe not empty, no buffer
MovedFrom(o) == alive[o] /\ TokenArray[o] = nullptr /\ Tokens[o] > 0

\* C9: a move gives the destination the membership and fields of the source
\* and takes the buffer from the source; destroying the moved-from source
\* frees nothing, and copy-assigning a set with a buffer to it gives it a
\* buffer of its own with that set's membership, whatever the Tokens of the
\* two, without an access through nullptr.
C9_MovedFromReassignable ==
  [][\A self \in Objects, rhs \in Objects :
       (fault = "none" /\ self /= rhs) =>
         /\ (Usable(rhs) /\ (MoveConstruct(self, rhs) \/ MoveAssign(self, rhs))) =>
              /\ fault' = "none"
              /\ TokenArray'[self] = TokenArray[rhs]
              /\ TokenArray'[rhs] = nullptr
              /\ Tokens'[self] = Tokens[rhs]
              /\ MaxElements'[self] = MaxElements[rhs]
              /\ LastTokenMask'[self] = LastTokenMask[rhs]
              /\ Members(self)' = Members(rhs)
         /\ (MovedFrom(self) /\ Destroy(self)) =>
              (fault' = "none" /\ allocated' = allocated)
         /\ (MovedFrom(self) /\ Usable(rhs) /\ CopyAssign(self, rhs)
             /\ ~allocFailed') =>
              /\ fault' = "none"
              /\ TokenArray'[self] /= nullptr
              /\ TokenArray'[self] /= TokenArray'[rhs]
              /\ Members(self)' = Members(rhs)
    ]_vars

(***************************************************************************)
(* C10                                                                     *)
(***************************************************************************)
\* a call, within its preconditions, of one of the member functions other
\* than Complement that write the storage of self, from operand c if any
WritesNoTail(self, c) ==
  \/ \E n \in 0 .. MaxUniverse : Construct(self, n)
  \/ Usable(self) /\ Clear(self)
  \/ Usable(self) /\ \E e \in Valid(self) : Add(self, e) \/ Remove(self, e)
  \/ /\ Usable(self) /\ Usable(c) /\ Compatible(self, c)
     /\ (CopyFrom(self, c) \/ UnionWith(self, c) \/ IntersectWith(self, c))
  \/ Usable(c) /\ CopyConstruct(self, c)
  \/ Usable(self) /\ Usable(c) /\ Compatible(self, c) /\ CopyAssign(self, c)

\* C10 as claimed: no member function other than Complement turns a tail
\* bit of its receiver from 0 to 1.
C10_OnlyComplementSetsTailBits ==
  [][\A self \in Objects, c \in Objects :
       (fault = "none" /\ WritesNoTail(self, c) /\ fault' = "none") =>
         TailSet(self)' \subseteq (IF alive[self] THEN TailSet(self) ELSE {})
    ]_vars

\* C10 as amended: construction and Clear leave no tail bit set; Add, Remove
\* and IntersectWith set none; CopyFrom, UnionWith, copy construction and
\* copy assignment set a tail bit of the receiver only where the last word of
\* the operand has that bit set (as it has after Complement on the
\* operand).  IsEmpty is exact, i.e. true iff Contains is false for every
\* valid element, on every set whose tail bits are all 0, and it is true
\* right after construction and after Clear.
C10_TailBitsAndIsEmpty ==
  /\ [](\A o \in Objects :
          (fault = "none" /\ Usable(o) /\ TailSet(o) = {}) =>
            (IsEmptyResult(o) <=> Members(o) = {}))
  /\ [][\A self \in Objects :
          (fault = "none" /\ fault' = "none") =>
            /\ ((\E n \in 0 .. MaxUniverse : Construct(self, n))
                \/ (Usable(self) /\ Clear(self))) =>
                 (TailSet(self)' = {} /\ IsEmptyResult(self)')
            \* a step that sets a tail bit of self is no Add, Remove or
            \* IntersectWith on self
            /\ (Usable(self) /\ ~(TailSet(self)' \subseteq TailSet(self))) =>
                 /\ ~ \E e \in Valid(self) : Add(self, e) \/ Remove(self, e)
                 /\ ~ \E c \in Objects : Usable(c) /\ IntersectWith(self, c)
            \* one that sets a tail bit the last word of c has not is no
            \* UnionWith(c) and no copy from c
            /\ \A c \in Objects :
                 Usable(c) =>
                   /\ (/\ Usable(self)
                       /\ ~(TailSet(self)' \subseteq
                              (TailSet(self) \cup LastToken(c)))) =>
                        ~UnionWith(self, c)
                   /\ ~(TailSet(self)' \subseteq LastToken(c)) =>
                        ~(CopyFrom(self, c) \/ CopyConstruct(self, c)
                          \/ CopyAssign(self, c))
       ]_vars

\* a set with a tail bit set next to a compatible one with none, which is
\* not empty and which IsEmpty does not report empty
C10_Witness ==
  \E o1 \in Objects, o2 \in Objects :
    /\ fault = "none" /\ o1 /= o2 /\ Usable(o1) /\ Usable(o2)
    /\ Compatible(o1, o2) /\ Tokens[o1] = 2
    /\ TailSet(o1) /= {}
    /\ TailSet(o2) = {} /\ Members(o2) /= {} /\ ~IsEmptyResult(o2)
====
